---- MODULE Spec2Model ----
(***************************************************************************)
(* Startup / shutdown supervisor of cmd-registry-k8s (main.go).            *)
(*                                                                         *)
(* The model covers main() from the creation of the lifetime context       *)
(* (signal.NotifyContext) to process exit, the listener start loop,        *)
(* exitOnErr (the non-blocking check and the background watcher), and the  *)
(* environment main() talks to: the per-listener error channel returned by *)
(* grpcutils.ListenAndServe (buffered, capacity 1, at most one error, then *)
(* closed; closed empty once the lifetime context is done), and the        *)
(* goroutine of signal.NotifyContext that turns a delivered signal into a  *)
(* cancellation.  Go channel semantics are kept: a receive completes on a  *)
(* buffered value or on a closed channel (yielding nil), and blocks on an  *)
(* open empty channel; logrus Fatal logs and calls os.Exit(1), so deferred *)
(* calls do not run; returning from main exits with status 0.              *)
(***************************************************************************)
EXTENDS Integers, FiniteSets

\* Bounds of the model
MaxListeners == 2
MaxSignals == 2

Idx == 0 .. (MaxListeners - 1)

VARIABLES
    n,           \* len(config.ListenOn)
    pc,          \* position of main
    i,           \* loop variable of the start loop
    starts,      \* starts[k]: number of ListenAndServe calls for ListenOn[k]
    errCh,       \* errCh[k]: state of the error channel of listener k
    listener,    \* listener[k]: state of the serving task of listener k
    failed,      \* listeners that placed an error on their channel
    checked,     \* checked[k]: outcome of the select of exitOnErr for k
    spawns,      \* spawns[k]: number of watcher goroutines started for k
    watcher,     \* watcher[k]: position of the watcher goroutine of k
    watcherErr,  \* watcherErr[k]: the value the watcher's receive returned
    errorLog,    \* watchers that logged at error level
    fatalErr,    \* the value logged by Fatal in exitOnErr
    ctxDone,     \* the lifetime context is cancelled (Done is closed)
    closes,      \* number of not-cancelled -> cancelled changes of ctx
    cancelCalls, \* number of cancellation invocations
    cause,       \* who performed the first cancellation
    causeErr,    \* the error that canceller held
    sigCh,       \* buffered signal channel of NotifyContext (capacity 1)
    notifier,    \* goroutine of NotifyContext
    signals,     \* termination signals delivered to the process
    observedDone,\* main's receive on ctx.Done() completed
    exitCode     \* -1 while running, else the process exit status

vars == <<n, pc, i, starts, errCh, listener, failed, checked, spawns, watcher,
          watcherErr, errorLog, fatalErr, ctxDone, closes, cancelCalls, cause,
          causeErr, sigCh, notifier, signals, observedDone, exitCode>>

ctxVars == <<ctxDone, closes, cancelCalls, cause, causeErr>>
mainVars == <<pc, i, observedDone, exitCode>>
watcherVars == <<watcher, watcherErr, errorLog, spawns>>
sigVars == <<sigCh, notifier, signals>>

----------------------------------------------------------------------------
\* Go channel semantics for a chan error of capacity 1

\* a receive on the channel completes without blocking
Ready(ch) == ch \in {"err", "errClosed", "closed"}

\* the value a completed receive returns
RecvVal(ch) == IF ch \in {"err", "errClosed"} THEN "err" ELSE "nil"

\* the channel after a completed receive
AfterRecv(ch) == IF ch = "err" THEN "open"
                 ELSE IF ch = "errClosed" THEN "closed"
                 ELSE ch

\* the channel after close(ch)
AfterClose(ch) == IF ch = "err" THEN "errClosed"
                  ELSE IF ch = "open" THEN "closed"
                  ELSE ch

Alive == pc /= "exited"

----------------------------------------------------------------------------
TypeOK ==
    /\ n \in 1 .. MaxListeners
    /\ pc \in {"start", "check", "spawn", "wait", "defer", "exited"}
    /\ i \in 0 .. MaxListeners
    /\ starts \in [Idx -> Nat]
    /\ errCh \in [Idx -> {"none", "open", "err", "errClosed", "closed"}]
    /\ listener \in [Idx -> {"unstarted", "serving", "sent", "done"}]
    /\ failed \subseteq Idx
    /\ checked \in [Idx -> {"no", "empty", "ready"}]
    /\ spawns \in [Idx -> Nat]
    /\ watcher \in [Idx -> {"none", "recv", "log", "cancel", "done"}]
    /\ watcherErr \in [Idx -> {"none", "err", "nil"}]
    /\ errorLog \subseteq Idx
    /\ fatalErr \in {"none", "err", "nil"}
    /\ ctxDone \in BOOLEAN
    /\ closes \in Nat
    /\ cancelCalls \in Nat
    /\ cause \in {"none", "signal", "watcher", "defer"}
    /\ causeErr \in {"none", "err", "nil"}
    /\ sigCh \in 0 .. 1
    /\ notifier \in {"waiting", "returned"}
    /\ signals \in 0 .. MaxSignals
    /\ observedDone \in BOOLEAN
    /\ exitCode \in {-1, 0, 1}

Init ==
    /\ n \in 1 .. MaxListeners
    /\ pc = "start"
    /\ i = 0
    /\ starts = [k \in Idx |-> 0]
    /\ errCh = [k \in Idx |-> "none"]
    /\ listener = [k \in Idx |-> "unstarted"]
    /\ failed = {}
    /\ checked = [k \in Idx |-> "no"]
    /\ spawns = [k \in Idx |-> 0]
    /\ watcher = [k \in Idx |-> "none"]
    /\ watcherErr = [k \in Idx |-> "none"]
    /\ errorLog = {}
    /\ fatalErr = "none"
    /\ ctxDone = FALSE
    /\ closes = 0
    /\ cancelCalls = 0
    /\ cause = "none"
    /\ causeErr = "none"
    /\ sigCh = 0
    /\ notifier = "waiting"
    /\ signals = 0
    /\ observedDone = FALSE
    /\ exitCode = -1

----------------------------------------------------------------------------
\* Cancellation of the lifetime context: the first invocation closes Done,
\* every later one finds the context cancelled and changes nothing.
cancelTwice(who, e) ==
    /\ cancelCalls' = cancelCalls + 1
    /\ ctxDone' = TRUE
    /\ closes' = closes + 1
    /\ cause' = who
    /\ causeErr' = e

cancel(who, e) ==
    /\ cancelCalls' = cancelCalls + 1
    /\ IF ctxDone
       THEN UNCHANGED <<ctxDone, closes, cause, causeErr>>
       ELSE /\ ctxDone' = TRUE
            /\ closes' = closes + 1
            /\ cause' = who
            /\ causeErr' = e

----------------------------------------------------------------------------
\* main: srvErrCh := grpcutils.ListenAndServe(ctx, &config.ListenOn[i], server)
\* The call returns the channel at once; a bind that fails synchronously
\* leaves the error in the channel and closes it.
ListenAndServe ==
    /\ pc = "start"
    /\ i < n
    /\ \E bindFails \in BOOLEAN :
          /\ errCh' = [errCh EXCEPT ![i] = IF bindFails THEN "errClosed" ELSE "open"]
          /\ listener' = [listener EXCEPT ![i] = IF bindFails THEN "done" ELSE "serving"]
          /\ failed' = IF bindFails THEN failed \cup {i} ELSE failed
    /\ starts' = [starts EXCEPT ![i] = @ + 1]
    /\ pc' = "check"
    /\ UNCHANGED <<n, i, checked, observedDone, exitCode, fatalErr>>
    /\ UNCHANGED <<watcherVars, ctxVars, sigVars>>

\* exitOnErr: select { case err := <-errCh: Fatal(err); default: }
\* Fatal logs the value and exits the process with status 1; the deferred
\* cancel of main does not run.
exitOnErrSelectNoCheck ==
    /\ pc = "check"
    /\ checked' = [checked EXCEPT ![i] = "empty"]
    /\ pc' = "spawn"
    /\ UNCHANGED <<n, i, starts, errCh, listener, failed, fatalErr, observedDone, exitCode>>
    /\ UNCHANGED <<watcherVars, ctxVars, sigVars>>

exitOnErrSelectBlocking ==
    /\ pc = "check"
    /\ Ready(errCh[i])
    /\ fatalErr' = RecvVal(errCh[i])
    /\ errCh' = [errCh EXCEPT ![i] = AfterRecv(@)]
    /\ checked' = [checked EXCEPT ![i] = "ready"]
    /\ pc' = "exited"
    /\ exitCode' = 1
    /\ UNCHANGED <<n, i, starts, listener, failed, observedDone>>
    /\ UNCHANGED <<watcherVars, ctxVars, sigVars>>

exitOnErrSelectNoExit ==
    /\ pc = "check"
    /\ IF Ready(errCh[i])
       THEN /\ fatalErr' = RecvVal(errCh[i])
            /\ errCh' = [errCh EXCEPT ![i] = AfterRecv(@)]
            /\ checked' = [checked EXCEPT ![i] = "ready"]
       ELSE /\ checked' = [checked EXCEPT ![i] = "empty"]
            /\ UNCHANGED <<fatalErr, errCh>>
    /\ pc' = "spawn"
    /\ UNCHANGED <<n, i, starts, listener, failed, observedDone, exitCode>>
    /\ UNCHANGED <<watcherVars, ctxVars, sigVars>>

exitOnErrSelect ==
    /\ pc = "check"
    /\ IF Ready(errCh[i])
       THEN /\ fatalErr' = RecvVal(errCh[i])
            /\ errCh' = [errCh EXCEPT ![i] = AfterRecv(@)]
            /\ checked' = [checked EXCEPT ![i] = "ready"]
            /\ pc' = "exited"
            /\ exitCode' = 1
       ELSE /\ checked' = [checked EXCEPT ![i] = "empty"]
            /\ pc' = "spawn"
            /\ UNCHANGED <<fatalErr, errCh, exitCode>>
    /\ UNCHANGED <<n, i, starts, listener, failed, observedDone>>
    /\ UNCHANGED <<watcherVars, ctxVars, sigVars>>

\* exitOnErr: go func(ctx, errCh) {...}(ctx, errCh); exitOnErr returns, and
\* the loop of main goes on (i++; i < len(config.ListenOn)) or ends, logs
\* "Startup completed" and reaches <-ctx.Done().
exitOnErrGoNoWatcher ==
    /\ pc = "spawn"
    /\ i' = i + 1
    /\ pc' = IF i + 1 < n THEN "start" ELSE "wait"
    /\ UNCHANGED <<n, starts, errCh, listener, failed, checked, fatalErr, observedDone, exitCode>>
    /\ UNCHANGED <<watcherVars, ctxVars, sigVars>>

exitOnErrGo ==
    /\ pc = "spawn"
    /\ watcher' = [watcher EXCEPT ![i] = "recv"]
    /\ spawns' = [spawns EXCEPT ![i] = @ + 1]
    /\ i' = i + 1
    /\ pc' = IF i + 1 < n THEN "start" ELSE "wait"
    /\ UNCHANGED <<n, starts, errCh, listener, failed, checked, fatalErr, observedDone, exitCode>>
    /\ UNCHANGED <<watcherErr, errorLog, ctxVars, sigVars>>

\* main: <-ctx.Done()
mainWaitNoWait ==
    /\ pc = "wait"
    /\ observedDone' = ctxDone
    /\ pc' = "defer"
    /\ UNCHANGED <<n, i, starts, errCh, listener, failed, checked, fatalErr, exitCode>>
    /\ UNCHANGED <<watcherVars, ctxVars, sigVars>>

mainWait ==
    /\ pc = "wait"
    /\ ctxDone
    /\ observedDone' = TRUE
    /\ pc' = "defer"
    /\ UNCHANGED <<n, i, starts, errCh, listener, failed, checked, fatalErr, exitCode>>
    /\ UNCHANGED <<watcherVars, ctxVars, sigVars>>

\* main returns: the deferred cancel() runs and the process exits with 0
mainReturn ==
    /\ pc = "defer"
    /\ cancel("defer", "none")
    /\ pc' = "exited"
    /\ exitCode' = 0
    /\ UNCHANGED <<n, i, starts, errCh, listener, failed, checked, fatalErr, observedDone>>
    /\ UNCHANGED <<watcherVars, sigVars>>

----------------------------------------------------------------------------
\* The watcher goroutine of exitOnErr

\* err := <-errCh
watcherRecv(w) ==
    /\ Alive
    /\ watcher[w] = "recv"
    /\ Ready(errCh[w])
    /\ watcherErr' = [watcherErr EXCEPT ![w] = RecvVal(errCh[w])]
    /\ errCh' = [errCh EXCEPT ![w] = AfterRecv(@)]
    /\ watcher' = [watcher EXCEPT ![w] = "log"]
    /\ UNCHANGED <<n, starts, listener, failed, checked, fatalErr, errorLog, spawns>>
    /\ UNCHANGED <<mainVars, ctxVars, sigVars>>

\* log.FromContext(ctx).Error(err)
watcherLogSkipped(w) ==
    /\ Alive
    /\ watcher[w] = "log"
    /\ watcher' = [watcher EXCEPT ![w] = "cancel"]
    /\ UNCHANGED <<n, starts, errCh, listener, failed, checked, fatalErr, errorLog, watcherErr, spawns>>
    /\ UNCHANGED <<mainVars, ctxVars, sigVars>>

watcherLog(w) ==
    /\ Alive
    /\ watcher[w] = "log"
    /\ errorLog' = errorLog \cup {w}
    /\ watcher' = [watcher EXCEPT ![w] = "cancel"]
    /\ UNCHANGED <<n, starts, errCh, listener, failed, checked, fatalErr, watcherErr, spawns>>
    /\ UNCHANGED <<mainVars, ctxVars, sigVars>>

\* cancel()
watcherCancelMissing(w) ==
    /\ Alive
    /\ watcher[w] = "cancel"
    /\ watcher' = [watcher EXCEPT ![w] = "done"]
    /\ UNCHANGED <<n, starts, errCh, listener, failed, checked, fatalErr, watcherErr, errorLog, spawns>>
    /\ UNCHANGED <<mainVars, ctxVars, sigVars>>

watcherCancelOnErrOnly(w) ==
    /\ Alive
    /\ watcher[w] = "cancel"
    /\ IF watcherErr[w] = "nil"
       THEN UNCHANGED ctxVars
       ELSE cancel("watcher", watcherErr[w])
    /\ watcher' = [watcher EXCEPT ![w] = "done"]
    /\ UNCHANGED <<n, starts, errCh, listener, failed, checked, fatalErr, watcherErr, errorLog, spawns>>
    /\ UNCHANGED <<mainVars, sigVars>>

watcherCancel(w) ==
    /\ Alive
    /\ watcher[w] = "cancel"
    /\ cancel("watcher", watcherErr[w])
    /\ watcher' = [watcher EXCEPT ![w] = "done"]
    /\ UNCHANGED <<n, starts, errCh, listener, failed, checked, fatalErr, watcherErr, errorLog, spawns>>
    /\ UNCHANGED <<mainVars, sigVars>>

----------------------------------------------------------------------------
\* The serving task behind the channel ListenAndServe returned

\* Serve returns an error: it is sent on the channel (capacity 1, never full)
listenerServeErr(l) ==
    /\ Alive
    /\ listener[l] = "serving"
    /\ errCh[l] = "open"
    /\ errCh' = [errCh EXCEPT ![l] = "err"]
    /\ listener' = [listener EXCEPT ![l] = "sent"]
    /\ failed' = failed \cup {l}
    /\ UNCHANGED <<n, starts, checked, fatalErr>>
    /\ UNCHANGED <<mainVars, watcherVars, ctxVars, sigVars>>

\* the channel is closed after the error was sent
listenerClose(l) ==
    /\ Alive
    /\ listener[l] = "sent"
    /\ errCh' = [errCh EXCEPT ![l] = AfterClose(@)]
    /\ listener' = [listener EXCEPT ![l] = "done"]
    /\ UNCHANGED <<n, starts, failed, checked, fatalErr>>
    /\ UNCHANGED <<mainVars, watcherVars, ctxVars, sigVars>>

\* the lifetime context is done: the server stops and the channel is
\* closed without a value
listenerStop(l) ==
    /\ Alive
    /\ listener[l] = "serving"
    /\ ctxDone
    /\ errCh' = [errCh EXCEPT ![l] = AfterClose(@)]
    /\ listener' = [listener EXCEPT ![l] = "done"]
    /\ UNCHANGED <<n, starts, failed, checked, fatalErr>>
    /\ UNCHANGED <<mainVars, watcherVars, ctxVars, sigVars>>

----------------------------------------------------------------------------
\* signal.NotifyContext(context.Background(), os.Interrupt, SIGHUP, SIGTERM, SIGQUIT)

\* one of the four signals is delivered; the channel of NotifyContext has
\* capacity 1 and a signal that finds it full is dropped
signalDelivered ==
    /\ Alive
    /\ signals < MaxSignals
    /\ signals' = signals + 1
    /\ sigCh' = 1
    /\ UNCHANGED <<n, starts, errCh, listener, failed, checked, fatalErr, notifier>>
    /\ UNCHANGED <<mainVars, watcherVars, ctxVars>>

\* goroutine of NotifyContext: select { case <-c.ch: c.cancel(); case <-c.Done(): }
notifyCancel ==
    /\ Alive
    /\ notifier = "waiting"
    /\ sigCh = 1
    /\ sigCh' = 0
    /\ cancel("signal", "none")
    /\ notifier' = "returned"
    /\ UNCHANGED <<n, starts, errCh, listener, failed, checked, fatalErr, signals>>
    /\ UNCHANGED <<mainVars, watcherVars>>

notifyDone ==
    /\ Alive
    /\ notifier = "waiting"
    /\ ctxDone
    /\ notifier' = "returned"
    /\ UNCHANGED <<n, starts, errCh, listener, failed, checked, fatalErr, sigCh, signals>>
    /\ UNCHANGED <<mainVars, watcherVars, ctxVars>>

----------------------------------------------------------------------------
main == ListenAndServe \/ exitOnErrSelect \/ exitOnErrGo \/ mainWait \/ mainReturn

watcherStep(w) == watcherRecv(w) \/ watcherLog(w) \/ watcherCancel(w)

Next ==
    \/ ListenAndServe
    \/ exitOnErrSelect
    \/ exitOnErrGo
    \/ mainWait
    \/ mainReturn
    \/ \E w \in Idx : watcherRecv(w)
    \/ \E w \in Idx : watcherLog(w)
    \/ \E w \in Idx : watcherCancel(w)
    \/ \E l \in Idx : listenerServeErr(l)
    \/ \E l \in Idx : listenerClose(l)
    \/ \E l \in Idx : listenerStop(l)
    \/ signalDelivered
    \/ notifyCancel
    \/ notifyDone

Spec == Init /\ [][Next]_vars

\* The Go scheduler runs every runnable goroutine: main, the watchers and the
\* goroutine of NotifyContext take their enabled steps.  Signals and listener
\* failures are events of the environment and carry no fairness.
LiveSpec ==
    /\ Init
    /\ [][Next]_vars
    /\ WF_vars(main)
    /\ \A w \in Idx : WF_vars(watcherStep(w))
    /\ WF_vars(notifyCancel \/ notifyDone)

----------------------------------------------------------------------------
\* Properties

HasValue(ch) == ch \in {"err", "errClosed"}

\* startup completed: control is past the start loop
PastLoop == pc \in {"wait", "defer"} \/ (pc = "exited" /\ exitCode = 0)

\* the process was stopped by Fatal in the immediate check of exitOnErr
FatalExit == pc = "exited" /\ exitCode = 1 /\ fatalErr /= "none"

\* C1: once startup has completed, an error sitting in the channel of any
\* listener k (whichever k, however many listeners) leads, under fair
\* scheduling of main and the watchers, to the lifetime context being
\* cancelled and main's wait on ctx.Done() completing with the process exit.
C1_ErrorAfterStartupStopsProcess ==
    \A k \in Idx :
        (pc = "wait" /\ k < n /\ HasValue(errCh[k])) ~> (ctxDone /\ pc = "exited")

C1_Witness ==
    /\ pc = "exited"
    /\ n >= 2
    /\ signals = 0
    /\ Cardinality(failed) = 1
    /\ cause = "watcher"
    /\ causeErr = "err"
    /\ observedDone

\* C2: when exitOnErr runs its select and the channel already holds a value,
\* that same step logs it with Fatal and ends the process with status 1,
\* and no watcher is spawned; exitOnErr goes on to spawn a watcher only when
\* the select found the channel open and empty.
C2_ImmediateErrorActedOnInSameCall ==
    [][(pc = "check" /\ pc' /= "check") =>
          /\ HasValue(errCh[i]) =>
                /\ pc' = "exited"
                /\ exitCode' = 1
                /\ fatalErr' = "err"
                /\ ~HasValue(errCh'[i])
                /\ watcher' = watcher
                /\ spawns' = spawns
          /\ pc' = "spawn" => errCh[i] = "open"]_vars

C2_Witness ==
    /\ FatalExit
    /\ fatalErr = "err"
    /\ n = 2
    /\ i = 1
    /\ checked[1] = "ready"
    /\ spawns[1] = 0

C4_ExitCodeReflectsCause ==
    pc = "exited" =>
        /\ (fatalErr = "err" \/ (observedDone /\ cause = "watcher" /\ causeErr = "err"))
              => exitCode /= 0
        /\ (observedDone /\ cause = "signal" /\ failed = {}) => exitCode = 0

\* C5: main is never blocked inside the start loop or inside exitOnErr, it
\* leaves the loop (or exits fatally) under fair scheduling, each address is
\* started at most once, and past the loop each address was started once.
C5_StartLoopNeverBlocks ==
    /\ [](pc \in {"start", "check", "spawn"} => ENABLED main)
    /\ <>(pc \in {"wait", "defer", "exited"})
    /\ [](\A k \in Idx : starts[k] <= 1)
    /\ [](PastLoop => \A k \in Idx : starts[k] = (IF k < n THEN 1 ELSE 0))

C5_Witness ==
    /\ pc = "wait"
    /\ n >= 2
    /\ \A k \in 0 .. (n - 1) : starts[k] = 1 /\ listener[k] = "serving" /\ errCh[k] = "open"
    /\ ~ctxDone

\* C6 (as stated): the process never stops with an error still sitting in
\* a listener's channel.
C6_NoErrorLeftInChannelAtExit ==
    pc = "exited" => \A k \in Idx : ~HasValue(errCh[k])

\* C6 (amended): under fair scheduling every error placed on a channel is
\* received, by that listener's immediate check or its watcher, unless the
\* process stops first; an error leaves a channel only through those two;
\* and when exactly one listener failed and no signal was delivered the
\* process stops only after that error was received and logged.
C6_ErrorReceivedUnlessProcessStops ==
    /\ \A k \in Idx : HasValue(errCh[k]) ~> (~HasValue(errCh[k]) \/ pc = "exited")
    /\ [][\A k \in Idx : (HasValue(errCh[k]) /\ ~HasValue(errCh'[k])) =>
              \/ (pc = "check" /\ i = k /\ fatalErr' = "err")
              \/ (watcher[k] = "recv" /\ watcherErr'[k] = "err")]_vars
    /\ []((pc = "exited" /\ signals = 0 /\ Cardinality(failed) = 1) =>
              \A k \in failed :
                  \/ (checked[k] = "ready" /\ fatalErr = "err")
                  \/ (watcherErr[k] = "err" /\ k \in errorLog))

C6_Witness ==
    /\ pc = "exited"
    /\ signals = 0
    /\ n = 2
    /\ failed = {1}
    /\ watcherErr[1] = "err"
    /\ 1 \in errorLog
    /\ exitCode = 0

\* the states of the shutdown coordinator
State == IF pc = "exited" THEN "STOPPED"
         ELSE IF ctxDone THEN "SHUTTING_DOWN"
         ELSE "RUNNING"

\* the lifetime context is cancelled only after a signal was delivered or
\* after a watcher received and logged an error from its channel
CancelHasTrigger ==
    ctxDone => (signals > 0 \/ \E k \in Idx : watcherErr[k] = "err" /\ k \in errorLog)

\* C7 (as stated): the context is cancelled only after a signal or a
\* listener error, and the process stops only after the context was
\* cancelled and main observed ctx.Done().
C7_StopsOnlyThroughShuttingDown ==
    /\ CancelHasTrigger
    /\ pc = "exited" => (ctxDone /\ observedDone)

\* C7 (amended): the context is cancelled only after a signal or a listener
\* error, and the process stops only after the context was cancelled and
\* main observed ctx.Done(), or through the Fatal of an immediate check of
\* exitOnErr during the start loop, which stops the process wherever the
\* coordinator is (also straight from RUNNING); the context never reverts.
C7_StopsThroughShuttingDownOrFatal ==
    /\ [](CancelHasTrigger)
    /\ [](pc = "exited" => ((ctxDone /\ observedDone /\ exitCode = 0) \/ (FatalExit /\ i < n /\ checked[i] = "ready")))
    /\ [][State' /= State =>
             \/ (State = "RUNNING" /\ State' = "SHUTTING_DOWN")
             \/ (State = "SHUTTING_DOWN" /\ State' = "STOPPED" /\ (pc = "defer" \/ pc = "check"))
             \/ (State = "RUNNING" /\ State' = "STOPPED" /\ pc = "check" /\ fatalErr' /= "none")]_vars

C7_Witness ==
    /\ FatalExit
    /\ ~ctxDone
    /\ ~observedDone
    /\ i = 1
    /\ watcher[0] = "recv"

\* C8 (as stated): every channel handed to exitOnErr gets exactly one
\* watcher once that call is over or the process has stopped, a watcher
\* leaves its receive only with a value, and after startup the number of
\* watchers is the number of addresses.
C8_ExactlyOneWatcherPerChannel ==
    /\ \A k \in Idx :
          (starts[k] = 1 /\ (k < i \/ pc = "exited")) => spawns[k] = 1
    /\ \A k \in Idx : spawns[k] <= 1
    /\ \A k \in Idx : watcher[k] \in {"log", "cancel", "done"} => watcherErr[k] = "err"
    /\ PastLoop => Cardinality({k \in Idx : spawns[k] = 1}) = n

\* C8 (amended): a channel whose immediate check found it open and empty
\* gets exactly one watcher, a channel whose immediate check completed a
\* receive gets none (the process exits), and no channel ever gets two; a
\* watcher stays blocked on its one receive until a value arrives, the
\* channel is closed or the process exits; after startup the number of
\* watchers spawned is the number of addresses.
C8_OneWatcherPerCheckedChannel ==
    /\ [](\A k \in Idx : spawns[k] <= 1)
    /\ [](\A k \in Idx : (k < i) => (spawns[k] = 1 /\ checked[k] = "empty"))
    /\ [](\A k \in Idx : (checked[k] = "ready" \/ k > i) => (spawns[k] = 0 /\ watcher[k] = "none"))
    /\ [](PastLoop => Cardinality({k \in Idx : spawns[k] = 1}) = n)
    /\ [][\A k \in Idx : (watcher[k] = "recv" /\ watcher'[k] /= "recv") =>
              (Ready(errCh[k]) /\ watcher'[k] = "log" /\ watcherErr'[k] = RecvVal(errCh[k]))]_vars
    /\ [](\A k \in Idx : (watcher[k] = "recv") => watcherErr[k] = "none")

C8_Witness ==
    /\ pc = "wait"
    /\ n = 2
    /\ spawns[0] = 1
    /\ spawns[1] = 1
    /\ watcher[0] = "recv"
    /\ watcher[1] = "log"
    /\ watcherErr[1] = "nil"

\* C9: listener k is started only after every earlier listener was started
\* once and its immediate check found the channel empty; when the immediate
\* check of listener i completes a receive, the process exits in that step
\* with status 1, no later listener is ever started, no watcher exists for
\* listener i, main never reaches its deferred cancel, and that step leaves
\* the lifetime context as it was.
C9_FatalCheckStopsStartLoop ==
    /\ [](\A k \in Idx : starts[k] >= 1 =>
              \A j \in 0 .. (k - 1) : starts[j] = 1 /\ checked[j] = "empty")
    /\ [](\A k \in Idx : checked[k] = "ready" =>
              /\ i = k
              /\ FatalExit
              /\ \A j \in Idx : j > k => (starts[j] = 0 /\ errCh[j] = "none")
              /\ spawns[k] = 0
              /\ watcher[k] = "none"
              /\ ~observedDone
              /\ cause /= "defer")
    /\ [][fatalErr' /= fatalErr =>
              (pc' = "exited" /\ ctxDone' = ctxDone /\ cancelCalls' = cancelCalls /\ closes' = closes)]_vars

C9_Witness ==
    /\ FatalExit
    /\ n = 2
    /\ i = 0
    /\ checked[0] = "ready"
    /\ starts[1] = 0
    /\ errCh[1] = "none"

\* C10 (as stated): when the process has stopped, the watchers that called
\* cancel are exactly the watchers whose receive completed.
C10_CancelIffReceiveCompleted ==
    pc = "exited" =>
        \A k \in Idx : (watcher[k] = "done") <=> (watcherErr[k] /= "none")

\* C10 (amended): a receive on a channel closed without a value completes
\* with nil exactly as one on a delivered error does: the watcher then logs
\* at error level and calls cancel whatever the value, and the immediate
\* check takes the Fatal branch with nil.  A watcher calls cancel only if
\* its receive completed, and a watcher whose receive completed calls cancel
\* unless the process exits first.
C10_ClosedChannelTreatedAsError ==
    /\ [][\A k \in Idx : (watcher[k] = "recv" /\ watcher'[k] /= "recv" /\ errCh[k] = "closed") =>
              (watcherErr'[k] = "nil" /\ watcher'[k] = "log")]_vars
    /\ [][\A k \in Idx : (watcher[k] /= "done" /\ watcher'[k] = "done") =>
              (watcherErr[k] /= "none" /\ k \in errorLog /\ cancelCalls' = cancelCalls + 1 /\ ctxDone')]_vars
    /\ [][(pc = "check" /\ pc' /= "check" /\ errCh[i] = "closed") =>
              (pc' = "exited" /\ fatalErr' = "nil" /\ exitCode' = 1)]_vars
    /\ [](\A k \in Idx : watcher[k] = "done" => watcherErr[k] /= "none")
    /\ \A k \in Idx : (watcherErr[k] /= "none") ~> (watcher[k] = "done" \/ pc = "exited")

C10_Witness ==
    \E k \in Idx :
        /\ watcherErr[k] = "nil"
        /\ watcher[k] = "done"
        /\ k \in errorLog
        /\ cause = "signal"

====
